---- MODULE Spec2Model ----
(***************************************************************************)
(* ArdentHAT (src/main.rs): hardware detection and driver setup.           *)
(*                                                                         *)
(* Every invocation of the binary is one process running main(): it        *)
(* parses one subcommand, scans the machine (lspci, lsusb, /proc/cpuinfo)  *)
(* and then displays, reports or installs.  Several invocations may run    *)
(* against the same machine at once; they share only the machine (its raw  *)
(* hardware data and its installed packages).  External commands are       *)
(* suspension points whose outcome is chosen by the environment.           *)
(***************************************************************************)
EXTENDS Integers, Sequences, FiniteSets, TLC

\* Number of invocations of the binary started against the machine.
NumInvocations == 2

Procs == 1..NumInvocations

Sources == {"PCI", "USB", "CPU"}

\* What a probed source can contain, as far as driver evidence goes.
Blobs == {"no_driver_evidence", "driver_evidence"}

CommandLines == { [cmd |-> "Detect", dry_run |-> FALSE],
                  [cmd |-> "Setup",  dry_run |-> FALSE],
                  [cmd |-> "Setup",  dry_run |-> TRUE],
                  [cmd |-> "Report", dry_run |-> FALSE] }

VARIABLES
    raw,            \* machine: raw data behind each hardware source
    parsed,         \* machine: the Vec each source parser returns for that data
    installed,      \* machine: packages pacman has installed
    command,        \* per invocation: the parsed subcommand ("" before parse)
    dry_run,        \* per invocation: Setup's dry_run flag
    pc,             \* per invocation: position in main()
    probed,         \* per invocation: source -> "pending" | "ok" | "failed"
    scan,           \* per invocation: scan_system's result: "pending" | "Ok" | "Err"
    components,     \* per invocation: the Vec<HardwareComponent> built so far
    required_drivers, \* per invocation: the plan of setup_drivers
    idx,            \* per invocation: position of the for loop in the plan
    mod_checks,     \* per invocation: arguments of the is_kernel_module calls
    mod_enables,    \* per invocation: arguments of the enable_kernel_module calls
    pkg_calls,      \* per invocation: arguments of the install_package calls
    pkg_exits,      \* per invocation: outcome of each install_package call
    previews,       \* per invocation: the "[Dry Run] Would install" lines
    initramfs_runs, \* per invocation: number of update_initramfs calls
    report,         \* per invocation: what generate_report wrote
    result          \* per invocation: "running" | "Ok" | the error of main()

vars == << raw, parsed, installed, command, dry_run, pc, probed, scan, components,
           required_drivers, idx, mod_checks, mod_enables, pkg_calls,
           pkg_exits, previews, initramfs_runs, report, result >>

machine == << raw, parsed, installed >>
calls   == << mod_checks, mod_enables, pkg_calls, pkg_exits, previews,
              initramfs_runs, report >>

----------------------------------------------------------------------------
\* Pure functions of the source.

\* match cli.command in main()
Dispatch_DetectRunsSetup(cmd) ==
    CASE cmd = "Detect" -> "setup_drivers"
      [] cmd = "Setup"  -> "setup_drivers"
      [] cmd = "Report" -> "generate_report"
      [] OTHER          -> "none"

Dispatch(cmd) ==
    CASE cmd = "Detect" -> "detect_hardware"
      [] cmd = "Setup"  -> "setup_drivers"
      [] cmd = "Report" -> "generate_report"
      [] OTHER          -> "none"

parse_pci_output(output) ==
    << [device_type |-> "PCI", vendor |-> "VENDOR", model |-> "DEVICE",
        driver |-> "None", status |-> "Unknown"] >>

parse_usb_output(output) ==
    << [device_type |-> "USB", vendor |-> "VENDOR", model |-> "DEVICE",
        driver |-> "None", status |-> "Unknown"] >>

parse_cpu_info(info) ==
    << [device_type |-> "CPU", vendor |-> "Intel", model |-> "Core i7",
        driver |-> "None", status |-> "Installed"] >>

identify_required_drivers(comps) == << "example-driver" >>

is_kernel_module(module) == FALSE

\* The parser scan_system applies to each source.
Parse(source, blob) ==
    CASE source = "PCI" -> parse_pci_output(blob)
      [] source = "USB" -> parse_usb_output(blob)
      [] source = "CPU" -> parse_cpu_info(blob)

\* Vec::extend as scan_system uses it: components.extend(parse_x(..)).
Extend(vec, items) == vec \o items

Handler(p) == Dispatch(command[p])

----------------------------------------------------------------------------
Init ==
    /\ raw \in [Sources -> Blobs]
    /\ parsed = [s \in Sources |-> Parse(s, raw[s])]
    /\ installed = {}
    /\ command = [p \in Procs |-> ""]
    /\ dry_run = [p \in Procs |-> FALSE]
    /\ pc = [p \in Procs |-> "main"]
    /\ probed = [p \in Procs |-> [s \in Sources |-> "pending"]]
    /\ scan = [p \in Procs |-> "pending"]
    /\ components = [p \in Procs |-> << >>]
    /\ required_drivers = [p \in Procs |-> << >>]
    /\ idx = [p \in Procs |-> 1]
    /\ mod_checks = [p \in Procs |-> << >>]
    /\ mod_enables = [p \in Procs |-> << >>]
    /\ pkg_calls = [p \in Procs |-> << >>]
    /\ pkg_exits = [p \in Procs |-> << >>]
    /\ previews = [p \in Procs |-> << >>]
    /\ initramfs_runs = [p \in Procs |-> 0]
    /\ report = [p \in Procs |-> << >>]
    /\ result = [p \in Procs |-> "running"]

\* main(): Cli::parse() and the match on the subcommand; each handler
\* starts with scan_system().
Main(p) ==
    /\ pc[p] = "main"
    /\ \E cl \in CommandLines :
          /\ command' = [command EXCEPT ![p] = cl.cmd]
          /\ dry_run' = [dry_run EXCEPT ![p] = cl.dry_run]
    /\ pc' = [pc EXCEPT ![p] = "lspci"]
    /\ UNCHANGED << machine, probed, scan, components, required_drivers, idx,
                    calls, result >>

\* The handler returns Err(e) through `?` and main() returns it.
Fail(p, e) ==
    /\ pc' = [pc EXCEPT ![p] = "done"]
    /\ result' = [result EXCEPT ![p] = e]

ScanPci(p) ==
    /\ pc[p] = "lspci"
    /\ \E ok \in BOOLEAN :
          IF ok
          THEN /\ probed' = [probed EXCEPT ![p]["PCI"] = "ok"]
               /\ components' = [components EXCEPT
                      ![p] = Extend(@, parsed["PCI"])]
               /\ pc' = [pc EXCEPT ![p] = "lsusb"]
               /\ UNCHANGED << scan, result >>
          ELSE /\ probed' = [probed EXCEPT ![p]["PCI"] = "failed"]
               /\ scan' = [scan EXCEPT ![p] = "Err"]
               /\ Fail(p, "Failed to execute lspci")
               /\ UNCHANGED components
    /\ UNCHANGED << machine, command, dry_run, required_drivers, idx, calls >>

ScanUsb(p) ==
    /\ pc[p] = "lsusb"
    /\ \E ok \in BOOLEAN :
          IF ok
          THEN /\ probed' = [probed EXCEPT ![p]["USB"] = "ok"]
               /\ components' = [components EXCEPT
                      ![p] = Extend(@, parsed["USB"])]
               /\ pc' = [pc EXCEPT ![p] = "cpuinfo"]
               /\ UNCHANGED << scan, result >>
          ELSE /\ probed' = [probed EXCEPT ![p]["USB"] = "failed"]
               /\ scan' = [scan EXCEPT ![p] = "Err"]
               /\ Fail(p, "Failed to execute lsusb")
               /\ UNCHANGED components
    /\ UNCHANGED << machine, command, dry_run, required_drivers, idx, calls >>

ScanCpu(p) ==
    /\ pc[p] = "cpuinfo"
    /\ \E ok \in BOOLEAN :
          IF ok
          THEN /\ probed' = [probed EXCEPT ![p]["CPU"] = "ok"]
               /\ components' = [components EXCEPT
                      ![p] = Extend(@, parsed["CPU"])]
               /\ scan' = [scan EXCEPT ![p] = "Ok"]
               /\ pc' = [pc EXCEPT ![p] = "scanned"]
               /\ UNCHANGED result
          ELSE /\ probed' = [probed EXCEPT ![p]["CPU"] = "failed"]
               /\ scan' = [scan EXCEPT ![p] = "Err"]
               /\ Fail(p, "Failed to read CPU info")
               /\ UNCHANGED components
    /\ UNCHANGED << machine, command, dry_run, required_drivers, idx, calls >>

\* detect_hardware(): display_hardware_table prints and returns Ok.
DisplayHardwareTable(p) ==
    /\ pc[p] = "scanned"
    /\ Handler(p) = "detect_hardware"
    /\ pc' = [pc EXCEPT ![p] = "done"]
    /\ result' = [result EXCEPT ![p] = "Ok"]
    /\ UNCHANGED << machine, command, dry_run, probed, scan, components,
                    required_drivers, idx, calls >>

\* generate_report(): serialize the inventory and write it; the write can fail.
GenerateReport(p) ==
    /\ pc[p] = "scanned"
    /\ Handler(p) = "generate_report"
    /\ \E written \in BOOLEAN :
          IF written
          THEN /\ report' = [report EXCEPT ![p] = components[p]]
               /\ pc' = [pc EXCEPT ![p] = "done"]
               /\ result' = [result EXCEPT ![p] = "Ok"]
          ELSE /\ Fail(p, "Failed to write the report file")
               /\ UNCHANGED report
    /\ UNCHANGED << machine, command, dry_run, probed, scan, components,
                    required_drivers, idx, mod_checks, mod_enables, pkg_calls,
                    pkg_exits, previews, initramfs_runs >>

\* setup_drivers(): let required_drivers = identify_required_drivers(&components)
IdentifyRequiredDrivers(p) ==
    /\ pc[p] = "scanned"
    /\ Handler(p) = "setup_drivers"
    /\ required_drivers' = [required_drivers EXCEPT
           ![p] = identify_required_drivers(components[p])]
    /\ idx' = [idx EXCEPT ![p] = 1]
    /\ pc' = [pc EXCEPT ![p] = "loop"]
    /\ UNCHANGED << machine, command, dry_run, probed, scan, components,
                    calls, result >>

\* One iteration of the for loop with dry_run set: only the preview line.
DryRunStep_Installs(p) ==
    /\ pc[p] = "loop"
    /\ idx[p] <= Len(required_drivers[p])
    /\ dry_run[p]
    /\ previews' = [previews EXCEPT ![p] = Append(@, required_drivers[p][idx[p]])]
    /\ pkg_calls' = [pkg_calls EXCEPT ![p] = Append(@, required_drivers[p][idx[p]])]
    /\ pkg_exits' = [pkg_exits EXCEPT ![p] = Append(@, "success")]
    /\ installed' = installed \cup {required_drivers[p][idx[p]]}
    /\ idx' = [idx EXCEPT ![p] = @ + 1]
    /\ UNCHANGED << raw, parsed, command, dry_run, pc, probed, scan, components,
                    required_drivers, mod_checks, mod_enables,
                    initramfs_runs, report, result >>

DryRunStep(p) ==
    /\ pc[p] = "loop"
    /\ idx[p] <= Len(required_drivers[p])
    /\ dry_run[p]
    /\ previews' = [previews EXCEPT ![p] = Append(@, required_drivers[p][idx[p]])]
    /\ idx' = [idx EXCEPT ![p] = @ + 1]
    /\ UNCHANGED << machine, command, dry_run, pc, probed, scan, components,
                    required_drivers, mod_checks, mod_enables, pkg_calls,
                    pkg_exits, initramfs_runs, report, result >>

\* One iteration of the for loop without dry_run: install_driver(&driver) up
\* to the point where it returns or waits for pacman.  is_kernel_module
\* cannot return Err.  install_package spawns `sudo pacman -S --noconfirm`;
\* a spawn failure is the Err of .status().
InstallDriver(p) ==
    /\ pc[p] = "loop"
    /\ idx[p] <= Len(required_drivers[p])
    /\ ~dry_run[p]
    /\ LET driver == required_drivers[p][idx[p]] IN
       /\ mod_checks' = [mod_checks EXCEPT ![p] = Append(@, driver)]
       /\ IF is_kernel_module(driver)
          THEN /\ mod_enables' = [mod_enables EXCEPT ![p] = Append(@, driver)]
               /\ idx' = [idx EXCEPT ![p] = @ + 1]
               /\ UNCHANGED << pkg_calls, pkg_exits, pc, result >>
          ELSE /\ pkg_calls' = [pkg_calls EXCEPT ![p] = Append(@, driver)]
               /\ UNCHANGED << mod_enables, idx >>
               /\ \E spawned \in BOOLEAN :
                     IF spawned
                     THEN /\ pc' = [pc EXCEPT ![p] = "pacman"]
                          /\ UNCHANGED << pkg_exits, result >>
                     ELSE /\ pkg_exits' = [pkg_exits EXCEPT
                                 ![p] = Append(@, "spawn_failed")]
                          /\ Fail(p, "Failed to install package")
    /\ UNCHANGED << machine, command, dry_run, probed, scan, components,
                    required_drivers, previews, initramfs_runs, report >>

\* pacman exits: a non-zero status is bail!("Failed to install package: {}"),
\* which `?` carries out of install_driver, setup_drivers and main.
PacmanExit_IgnoresStatus(p) ==
    /\ pc[p] = "pacman"
    /\ LET driver == required_drivers[p][idx[p]] IN
       \E success \in BOOLEAN :
          /\ pkg_exits' = [pkg_exits EXCEPT
                 ![p] = Append(@, IF success THEN "success" ELSE "non_zero")]
          /\ installed' = IF success THEN installed \cup {driver} ELSE installed
          /\ idx' = [idx EXCEPT ![p] = @ + 1]
          /\ pc' = [pc EXCEPT ![p] = "loop"]
          /\ UNCHANGED result
    /\ UNCHANGED << raw, parsed, command, dry_run, probed, scan, components,
                    required_drivers, mod_checks, mod_enables, pkg_calls,
                    previews, initramfs_runs, report >>

PacmanExit(p) ==
    /\ pc[p] = "pacman"
    /\ LET driver == required_drivers[p][idx[p]] IN
       \E success \in BOOLEAN :
          /\ pkg_exits' = [pkg_exits EXCEPT
                 ![p] = Append(@, IF success THEN "success" ELSE "non_zero")]
          /\ IF success
             THEN /\ installed' = installed \cup {driver}
                  /\ idx' = [idx EXCEPT ![p] = @ + 1]
                  /\ pc' = [pc EXCEPT ![p] = "loop"]
                  /\ UNCHANGED result
             ELSE /\ Fail(p, "Failed to install package: " \o driver)
                  /\ UNCHANGED << installed, idx >>
    /\ UNCHANGED << raw, parsed, command, dry_run, probed, scan, components,
                    required_drivers, mod_checks, mod_enables, pkg_calls,
                    previews, initramfs_runs, report >>

\* After the loop: if !dry_run { update_initramfs().await? }; Ok(())
SetupFinish(p) ==
    /\ pc[p] = "loop"
    /\ idx[p] > Len(required_drivers[p])
    /\ initramfs_runs' = [initramfs_runs EXCEPT
           ![p] = IF ~dry_run[p] THEN @ + 1 ELSE @]
    /\ pc' = [pc EXCEPT ![p] = "done"]
    /\ result' = [result EXCEPT ![p] = "Ok"]
    /\ UNCHANGED << machine, command, dry_run, probed, scan, components,
                    required_drivers, idx, mod_checks, mod_enables, pkg_calls,
                    pkg_exits, previews, report >>

Next ==
    \E p \in Procs :
       \/ Main(p)
       \/ ScanPci(p)
       \/ ScanUsb(p)
       \/ ScanCpu(p)
       \/ DisplayHardwareTable(p)
       \/ GenerateReport(p)
       \/ IdentifyRequiredDrivers(p)
       \/ DryRunStep(p)
       \/ InstallDriver(p)
       \/ PacmanExit(p)
       \/ SetupFinish(p)

Spec == Init /\ [][Next]_vars

----------------------------------------------------------------------------
\* The executor of setup_drivers (the for loop and what follows it) as a
\* function of the plan it is given: the first invocation stands right after
\* `let required_drivers = ...` with any plan of at most MaxPlanLen steps and
\* either value of dry_run; the other invocations are not started.

MaxPlanLen == 3

DriverNames == {"example-driver", "driverY", "shared-driver"}

BoundedSeq(S, n) == UNION { [1..k -> S] : k \in 0..n }

Scanned == Extend(Extend(Extend(<< >>, parsed["PCI"]), parsed["USB"]), parsed["CPU"])

ExecInit ==
    /\ raw \in [Sources -> Blobs]
    /\ parsed = [s \in Sources |-> Parse(s, raw[s])]
    /\ installed = {}
    /\ command = [p \in Procs |-> IF p = 1 THEN "Setup" ELSE ""]
    /\ dry_run \in [Procs -> BOOLEAN]
    /\ \A p \in Procs \ {1} : ~dry_run[p]
    /\ pc = [p \in Procs |-> IF p = 1 THEN "loop" ELSE "main"]
    /\ probed = [p \in Procs |-> [s \in Sources |-> IF p = 1 THEN "ok" ELSE "pending"]]
    /\ scan = [p \in Procs |-> IF p = 1 THEN "Ok" ELSE "pending"]
    /\ components = [p \in Procs |-> IF p = 1 THEN Scanned ELSE << >>]
    /\ required_drivers \in [Procs -> BoundedSeq(DriverNames, MaxPlanLen)]
    /\ \A p \in Procs \ {1} : required_drivers[p] = << >>
    /\ idx = [p \in Procs |-> 1]
    /\ mod_checks = [p \in Procs |-> << >>]
    /\ mod_enables = [p \in Procs |-> << >>]
    /\ pkg_calls = [p \in Procs |-> << >>]
    /\ pkg_exits = [p \in Procs |-> << >>]
    /\ previews = [p \in Procs |-> << >>]
    /\ initramfs_runs = [p \in Procs |-> 0]
    /\ report = [p \in Procs |-> << >>]
    /\ result = [p \in Procs |-> "running"]

ExecNext ==
    \E p \in Procs :
       \/ DryRunStep(p)
       \/ InstallDriver(p)
       \/ PacmanExit(p)
       \/ SetupFinish(p)

SpecExec == ExecInit /\ [][ExecNext]_vars

----------------------------------------------------------------------------
\* The aggregation of scan_system as a function of what the three parsers
\* return: the first invocation runs `detect` on a machine whose parsers
\* return any sequence of at most MaxRecords records of their source.

MaxRecords == 2

Statuses == {"Installed", "Available", "NotInstalled", "Unknown"}

\* The records a source parser can return: its device, with any status.
RecordsOf(source) ==
    { [Parse(source, "no_driver_evidence")[1] EXCEPT !.status = st] : st \in Statuses }

AggInit ==
    /\ raw = [s \in Sources |-> "no_driver_evidence"]
    /\ parsed \in [Sources -> BoundedSeq(UNION {RecordsOf(s) : s \in Sources}, MaxRecords)]
    /\ \A s \in Sources : \A i \in DOMAIN parsed[s] : parsed[s][i] \in RecordsOf(s)
    /\ installed = {}
    /\ command = [p \in Procs |-> IF p = 1 THEN "Detect" ELSE ""]
    /\ dry_run = [p \in Procs |-> FALSE]
    /\ pc = [p \in Procs |-> IF p = 1 THEN "lspci" ELSE "main"]
    /\ probed = [p \in Procs |-> [s \in Sources |-> "pending"]]
    /\ scan = [p \in Procs |-> "pending"]
    /\ components = [p \in Procs |-> << >>]
    /\ required_drivers = [p \in Procs |-> << >>]
    /\ idx = [p \in Procs |-> 1]
    /\ mod_checks = [p \in Procs |-> << >>]
    /\ mod_enables = [p \in Procs |-> << >>]
    /\ pkg_calls = [p \in Procs |-> << >>]
    /\ pkg_exits = [p \in Procs |-> << >>]
    /\ previews = [p \in Procs |-> << >>]
    /\ initramfs_runs = [p \in Procs |-> 0]
    /\ report = [p \in Procs |-> << >>]
    /\ result = [p \in Procs |-> "running"]

AggNext ==
    \E p \in Procs :
       \/ ScanPci(p)
       \/ ScanUsb(p)
       \/ ScanCpu(p)
       \/ DisplayHardwareTable(p)

SpecAgg == AggInit /\ [][AggNext]_vars

----------------------------------------------------------------------------
\* Vocabulary of the properties.

IsSetup(p) == command[p] = "Setup"
IsRealSetup(p) == IsSetup(p) /\ ~dry_run[p]
IsDryRun(p) == IsSetup(p) /\ dry_run[p]
Done(p) == pc[p] = "done"
Failed(p) == Done(p) /\ result[p] # "Ok"

NoRepeat(seq) == \A i, j \in DOMAIN seq : seq[i] = seq[j] => i = j

Identity(c) == << c.device_type, c.vendor, c.model >>

Rank(status) ==
    CASE status = "Installed"    -> 3
      [] status = "Available"    -> 2
      [] status = "NotInstalled" -> 1
      [] status = "Unknown"      -> 0

\* A step of invocation p.
Moved(p) == pc'[p] # pc[p] \/ idx'[p] # idx[p]

InstallSideCalls(p) ==
    << mod_checks[p], mod_enables[p], pkg_calls[p], pkg_exits[p], initramfs_runs[p] >>

----------------------------------------------------------------------------
\* C1 (SpecExec).  Fail-fast: once an install of a non-dry-run setup has
\* failed (pacman could not be started or exited non-zero), the failing call
\* is the last install call, no step after the failing one is attempted,
\* update_initramfs is not run, and setup has returned an error.
C1_FailFast ==
    \A p \in Procs :
       \A i \in DOMAIN pkg_exits[p] :
          pkg_exits[p][i] # "success" =>
             /\ i = Len(pkg_calls[p])
             /\ Len(mod_checks[p]) = idx[p]
             /\ idx[p] = Len(mod_enables[p]) + Len(pkg_calls[p])
             /\ initramfs_runs[p] = 0
             /\ Failed(p)

\* A plan [A, B, C] of three different drivers whose second install failed.
C1_Witness ==
    \E p \in Procs :
       /\ IsRealSetup(p)
       /\ Len(required_drivers[p]) = 3
       /\ NoRepeat(required_drivers[p])
       /\ pkg_calls[p] = SubSeq(required_drivers[p], 1, 2)
       /\ pkg_exits[p] = << "success", "non_zero" >>
       /\ Failed(p)
       /\ initramfs_runs[p] = 0

C3_DryRunPurity ==
    [][ \A p \in Procs :
          (IsDryRun(p) /\ Moved(p)) =>
             /\ machine' = machine
             /\ InstallSideCalls(p)' = InstallSideCalls(p)
             /\ InstallSideCalls(p) = << << >>, << >>, << >>, << >>, 0 >>
             /\ (Done(p)' /\ scan'[p] = "Ok") =>
                   (result'[p] = "Ok" /\ previews'[p] = required_drivers'[p]) ]_vars

\* A dry run over a plan of several steps has returned.
C3_Witness ==
    \E p \in Procs :
       /\ IsDryRun(p)
       /\ Done(p)
       /\ Len(required_drivers[p]) >= 2
       /\ previews[p] = required_drivers[p]
       /\ installed = {}

\* The driver names the entries of an inventory map to.
DriverNamesOf(inventory) ==
    { inventory[i].driver : i \in DOMAIN inventory } \ {"None"}

C5_ProbeFailureIsSkipped ==
    \A p \in Procs :
       \A s \in Sources :
          probed[p][s] = "failed" =>
             /\ scan[p] # "Err"
             /\ result[p] \notin {"Failed to execute lspci", "Failed to execute lsusb",
                                  "Failed to read CPU info"}
             /\ scan[p] = "Ok" =>
                   \A t \in Sources \ {s} :
                      probed[p][t] = "ok" =>
                         \A i \in DOMAIN parsed[t] :
                            \E k \in DOMAIN components[p] : components[p][k] = parsed[t][i]

\* Invocation p is between its first install step and its finalizer.
InExecutor(p) ==
    /\ IsRealSetup(p)
    /\ pc[p] \in {"loop", "pacman"}
    /\ mod_checks[p] # << >>

\* C6 (Spec).  Executor mutual exclusion: no invocation is waiting for the
\* package manager inside an install step while another invocation is between
\* its first install step and its finalizer.
C6_ExecutorMutualExclusion ==
    \A p, q \in Procs :
       (p # q /\ InExecutor(p)) => ~(IsRealSetup(q) /\ pc[q] = "pacman")

\* Whether the raw data of a source shows a driver to be installed.
Evidence(blob) == blob = "driver_evidence"

\* C7 (Spec).  A component of any inventory has status Installed only if the
\* raw data of its source held evidence that its driver is installed.
C7_InstalledOnlyWithEvidence ==
    \A p \in Procs :
       \A i \in DOMAIN components[p] :
          components[p][i].status = "Installed" =>
             Evidence(raw[components[p][i].device_type])

C9_DetectReportReadOnly ==
    \A p \in Procs :
       command[p] \in {"Detect", "Report"} =>
          /\ InstallSideCalls(p) = << << >>, << >>, << >>, << >>, 0 >>
          /\ previews[p] = << >>
          /\ required_drivers[p] = << >>
          /\ Done(p) =>
                /\ result[p] \in {"Ok", "Failed to execute lspci", "Failed to execute lsusb",
                                  "Failed to read CPU info", "Failed to write the report file"}
                /\ result[p] = "Ok" <=>
                      /\ scan[p] = "Ok"
                      /\ command[p] = "Report" => report[p] = components[p]

\* A detect and a report have both returned Ok while another invocation
\* installed a package.
C9_Witness ==
    /\ installed # {}
    /\ \E p \in Procs :
          /\ command[p] \in {"Detect", "Report"}
          /\ Done(p)
          /\ result[p] = "Ok"
          /\ Len(components[p]) = 3

\* C10 (Spec).  Each step of a non-dry-run setup checks is_kernel_module and
\* then performs exactly one action, enable_kernel_module after the answer
\* yes and install_package after the answer no; the check can answer either
\* way.
C10_CheckThenOneAction ==
    \A p \in Procs :
       mod_checks[p] # << >> =>
          /\ IsRealSetup(p)
          /\ Len(mod_checks[p]) = Len(mod_enables[p]) + Len(pkg_calls[p])
          /\ mod_checks[p] = SubSeq(required_drivers[p], 1, Len(mod_checks[p]))
          /\ \A i \in DOMAIN mod_enables[p] : is_kernel_module(mod_enables[p][i])
          /\ \A i \in DOMAIN pkg_calls[p] : ~is_kernel_module(pkg_calls[p][i])
          /\ { is_kernel_module(d) : d \in DriverNames } = BOOLEAN

====
